---------------------------- MODULE Spec2Model ----------------------------
(***************************************************************************)
(* State-machine model of the TEBD drivers of the repository:              *)
(*   - TEBDClifford (tenpy/algorithms/tebd_clifford.py) driven by main.py, *)
(*   - the script tebd_proj.py driving the TEBD engine,                    *)
(*   - the model builder XXZChain and the Hamiltonian of the exact         *)
(*     solution (src/utils.py),                                            *)
(*   - the option dictionary Config (tenpy/tools/params.py).               *)
(* Python floats are IEEE-754 binary64; the clock arithmetic is modelled   *)
(* bit-exactly (round to nearest, ties to even) on fixed-point numbers.    *)
(***************************************************************************)
EXTENDS Integers, Sequences, FiniteSets, TLC

(***************************************************************************)
(* Binary64 values.  A non-negative double x, a multiple of 2^-60 below    *)
(* 4096, is the triple <<l0, l1, l2>> of base-2^24 limbs (least            *)
(* significant first) of the integer x * 2^60.                             *)
(***************************************************************************)
B == 2^24

Zero == <<0, 0, 0>>

\* the integer k (0 <= k < 4096) as a double: k * 2^60 = k * 2^12 * B^2
FromInt(k) == <<0, 0, k * 4096>>

\* number of significant bits of a limb-sized natural (0 for 0)
BitLen(x) == CHOOSE k \in 0..26 : x < 2^k /\ (k = 0 \/ x >= 2^(k-1))

NumBits(n) ==
    IF n[3] > 0 THEN 48 + BitLen(n[3])
    ELSE IF n[2] > 0 THEN 24 + BitLen(n[2])
    ELSE BitLen(n[1])

\* the natural k < 2^48, counted in units of 2^-60
Small(k) == <<k % B, k \div B, 0>>

\* exact sum
Add(a, b) ==
    LET s0 == a[1] + b[1]
        s1 == a[2] + b[2] + (s0 \div B)
        s2 == a[3] + b[3] + (s1 \div B)
    IN  <<s0 % B, s1 % B, s2>>

\* a < b
Less(a, b) ==
    \/ a[3] < b[3]
    \/ a[3] = b[3] /\ a[2] < b[2]
    \/ a[3] = b[3] /\ a[2] = b[2] /\ a[1] < b[1]

Leq(a, b) == a = b \/ Less(a, b)

\* exact difference a - b, for b <= a
Sub(a, b) ==
    LET d0 == a[1] - b[1]
        w0 == IF d0 < 0 THEN 1 ELSE 0
        d1 == a[2] - b[2] - w0
        w1 == IF d1 < 0 THEN 1 ELSE 0
    IN  <<d0 + w0 * B, d1 + w1 * B, a[3] - b[3] - w1>>

Dist(a, b) == IF Less(a, b) THEN Sub(b, a) ELSE Sub(a, b)

\* exact product k * a of a natural k and a double a
RECURSIVE Times(_, _)
Times(k, a) ==
    IF k = 0 THEN Zero
    ELSE LET h == Times(k \div 2, a)
         IN  IF k % 2 = 0 THEN Add(h, h) ELSE Add(Add(h, h), a)

\* half a unit in the last place of n, in units of 2^-60 (0: n has spare bits)
HalfUlp(n) == IF NumBits(n) <= 53 THEN 0 ELSE 2^(NumBits(n) - 54)

\* rounding to 53 significant bits, to nearest, ties to even
Round53(n) ==
    LET len == NumBits(n)
    IN  IF len <= 53 THEN n
        ELSE LET s    == len - 53
                 q0   == n[1] \div 2^s
                 r    == n[1] % 2^s
                 half == 2^(s - 1)
                 up   == IF r > half \/ (r = half /\ q0 % 2 = 1) THEN 1 ELSE 0
                 l0   == (q0 + up) * 2^s
             IN  Add(<<0, n[2], n[3]>>, <<l0 % B, l0 \div B, 0>>)

\* Python's float addition  a + b
FAdd(a, b) == Round53(Add(a, b))

(***************************************************************************)
(* Float literals of the drivers (nearest binary64).                       *)
(***************************************************************************)
Dbl_0_1  == <<10066336, 10066329, 409>>     \* 0.1
Dbl_0_25 == <<0, 0, 1024>>                  \* 0.25
Dbl_0_3  == <<13421760, 13421772, 1228>>    \* 0.3


(***************************************************************************)
(* Configuration (utils/args.py get_config, main.py __main__).             *)
(***************************************************************************)
MaxL == 3
MaxChi == 2
MaxOrder == 4
MaxEvol == 3

RefL == 10
RefChiMax == 100
RefOrder == 4
RefEvolTime == 20

Ls == (1..MaxL) \cup {RefL}
Bcs == {"open", "periodic", "closed"}
ChiMaxs == (0..MaxChi) \cup {RefChiMax}
Orders == (1..MaxOrder) \cup {RefOrder}
Dts == {Dbl_0_1, Dbl_0_25, Dbl_0_3}
EvolTimes == {FromInt(k) : k \in (0..MaxEvol) \cup {RefEvolTime}}

\* namespaces that differ in the fields __init__ hands to the model, short runs
ShapeConfigs ==
    [L : Ls, bc : Bcs, chi_max : ChiMaxs, order : Orders,
     dt : {Dbl_0_25}, evol_time : {FromInt(0), FromInt(1)}]

\* namespaces that differ in the time step and the evolution time
ClockConfigs ==
    [L : {RefL}, bc : {"open"}, chi_max : {RefChiMax}, order : {RefOrder},
     dt : Dts, evol_time : EvolTimes]

\* the namespaces a caller hands to main(config)
Configs == ShapeConfigs \cup ClockConfigs

\* main.py lines 46-61
RefConfig ==
    [L |-> RefL, bc |-> "open", chi_max |-> RefChiMax, order |-> RefOrder,
     dt |-> Dbl_0_1, evol_time |-> FromInt(RefEvolTime)]

\* the configurations the specification calls valid (section 6)
ValidConfig(c) ==
    /\ c.L >= 2
    /\ c.bc \in {"open", "periodic"}
    /\ c.chi_max >= 1
    /\ c.order \in {1, 2, 4}

VARIABLES
    config,     \* the argparse namespace handed to main()
    solver,     \* <<>> or <<the TEBDClifford instance>>
    rpc,        \* control point of main(): "new", "error", "built", "loop", "done"
    time,       \* the local clock of TEBDClifford.run
    iters       \* loop iterations of TEBDClifford.run completed so far

runVars == <<config, solver, rpc, time, iters>>

VARIABLES
    params,        \* model_params, tebd_params, clifford_step and the final time
    pc,            \* control point of the script: "start", "test", "run",
                   \*   "measure", "done", "failed"
    evolved_time,  \* eng.evolved_time
    trunc_err,     \* eng.trunc_err: accumulated discarded weight
    chi,           \* eng.psi: the dimension of each bond 1..L-1
    todo,          \* run(): Trotter sub-steps not yet finished (their parities)
    gates,         \* run(): two-site gates still to apply before the sub-step ends
    substeps,      \* elementary sub-steps finished since construction
    cliffordAt,    \* log of Clifford applications: sub-step count and bond of each
    steps,         \* calls of eng.run() that returned
    data           \* the measurement records, oldest first

engVars == <<params, pc, evolved_time, trunc_err, chi, todo, gates, substeps,
             cliffordAt, steps, data>>

VARIABLES
    model_params,  \* the dict handed to XXZChain and the arguments of get_exact_mags
    model,         \* <<>> or <<the XXZChain instance>>
    graph,         \* <<>> or <<the graph get_line_graph returned>>
    sparse_list,   \* <<>> or <<the term list of get_heisenberg_hamiltonian>>
    mpc            \* control point: "new", "error", "model", "graph", "ham"

modelVars == <<model_params, model, graph, sparse_list, mpc>>

VARIABLES
    dicts,        \* the Python dicts created so far (options of the Configs)
    sets,         \* the Python sets created so far (unused sets of the Configs)
    objs,         \* the Config objects created so far
    ret,          \* the outcome of the last call on a Config
    nops,         \* calls made on Configs so far
    claimUnread   \* per Config: keys supplied and not yet read (for C15)

confVars == <<dicts, sets, objs, ret, nops, claimUnread>>

\* what the drivers main.py and tebd_proj.py of the sections below leave alone
otherVars == <<modelVars, confVars>>

vars == <<config, solver, rpc, time, iters, params, pc, evolved_time, trunc_err,
          chi, todo, gates, substeps, cliffordAt, steps, data,
          model_params, model, graph, sparse_list, mpc,
          dicts, sets, objs, ret, nops, claimUnread>>

(***************************************************************************)
(* TEBDClifford (tenpy/algorithms/tebd_clifford.py).                       *)
(***************************************************************************)
\* Chain(L, spin, bc=bc, bc_MPS=bc_MPS), reached through XXZChain.__init__
LatticeAccepts(L, bc) == L >= 2 /\ bc \in {"open", "periodic"}

\* MPS.from_product_state: one bond between neighbouring sites, each of dimension 1
ProductState(L) == [b \in 1..(L - 1) |-> 1]

\* the instance TEBDClifford.__init__ leaves behind when no call in it raises
NewSolver(c) ==
    [L |-> c.L, bc |-> c.bc, dt |-> c.dt, order |-> c.order,
     chi_max |-> c.chi_max, evol_time |-> c.evol_time,
     psi |-> ProductState(c.L)]

\* solver = TEBDClifford(config)
TEBDClifford_init ==
    /\ rpc = "new"
    /\ IF LatticeAccepts(config.L, config.bc)
       THEN solver' = <<NewSolver(config)>> /\ rpc' = "built"
       ELSE solver' = <<>> /\ rpc' = "error"
    /\ UNCHANGED <<config, time, iters>>
    /\ UNCHANGED engVars
    /\ UNCHANGED otherVars

\* reversed operands of the loop test
LoopCondReversed(t, e) == Less(e, t)

\* while time < self.evol_time
LoopCond(t, e) == Less(t, e)

\* a clock that advances by two time steps
ClockAdvanceTwice(t, d) == FAdd(FAdd(t, d), d)

\* time += self.dt
ClockAdvance(t, d) == FAdd(t, d)

\* solver.run() up to the loop: time = 0.
RunEnter ==
    /\ rpc = "built"
    /\ time' = Zero
    /\ iters' = 0
    /\ rpc' = "loop"
    /\ UNCHANGED <<config, solver>>
    /\ UNCHANGED engVars
    /\ UNCHANGED otherVars

\* one iteration of the loop of run()
RunIter ==
    /\ rpc = "loop"
    /\ LoopCond(time, solver[1].evol_time)
    /\ time' = ClockAdvance(time, solver[1].dt)
    /\ iters' = iters + 1
    /\ UNCHANGED <<config, solver, rpc>>
    /\ UNCHANGED engVars
    /\ UNCHANGED otherVars

\* the loop test fails: run() returns
RunExit ==
    /\ rpc = "loop"
    /\ ~LoopCond(time, solver[1].evol_time)
    /\ rpc' = "done"
    /\ UNCHANGED <<config, solver, time, iters>>
    /\ UNCHANGED engVars
    /\ UNCHANGED otherVars



(***************************************************************************)
(* The script tebd_proj.py and the TEBD engine it drives.  The script      *)
(* fixes an open chain with a finite MPS; its parameters are drawn here    *)
(* from small sets.                                                        *)
(***************************************************************************)
MaxCliffordStep == 3
MaxRunTime == 2

RefCliffordStep == 50

\* a positive discarded weight, 2^-40
DiscardW == <<2^20, 0, 0>>

RunTimes == {Times(k, Dbl_0_25) : k \in 0..MaxRunTime}

\* a cutoff that can drop singular values (svd_min > 0), short schedules
CutParams ==
    [L : 2..MaxL, chi_max : 1..MaxChi, svd_cut : {TRUE}, order : {1, 2},
     dt : {Dbl_0_25}, clifford_step : 0..MaxCliffordStep, evol_time : RunTimes]

\* no cutoff (svd_min = 0), every supported order and Clifford period
SweepParams ==
    [L : 2..MaxL, chi_max : 1..MaxChi, svd_cut : {FALSE}, order : {1, 2, 4},
     dt : {Dbl_0_25}, clifford_step : 0..MaxCliffordStep, evol_time : RunTimes]

SmallParams == CutParams \cup SweepParams

\* the scenario of tebd_proj.py lines 49-82 and 97 (section 8).  Its cutoff
\* svd_min = 1e-12 is taken as no cutoff: which singular values of a 10-site
\* chain fall below it is decided by the numerics, and neither the clock nor
\* the number of records depends on it.
RefParams ==
    [L |-> RefL, chi_max |-> RefChiMax, svd_cut |-> FALSE, order |-> RefOrder,
     dt |-> Dbl_0_1, clifford_step |-> RefCliffordStep,
     evol_time |-> FromInt(RefEvolTime)]

Params == SmallParams \cup {RefParams}

Min(a, b) == IF a <= b THEN a ELSE b

\* lifecycle state of the engine as the specification names it
EngineState ==
    CASE pc = "start" -> "Idle"
      [] pc \in {"test", "run", "measure"} -> "Running"
      [] pc = "done" -> "Completed"
      [] pc = "failed" -> "Failed"

(***************************************************************************)
(* MPS and truncation (sections 4.2, 4.3).                                 *)
(***************************************************************************)
\* dimension of the bond left of site b-1 / right of site b (1 at the ends)
LeftDim(c, b) == IF b = 1 THEN 1 ELSE c[b - 1]
RightDim(c, b) == IF b = Len(c) THEN 1 ELSE c[b + 1]

\* singular values of the two-site tensor at bond b (site dimension 2)
FullRank(c, b) == 2 * Min(LeftDim(c, b), RightDim(c, b))

\* a truncation that forgets the bond-dimension cap
RankChoicesNoCap(c, b, p) ==
    IF p.svd_cut THEN 1..FullRank(c, b) ELSE {FullRank(c, b)}

\* the dimensions the truncated SVD can leave on bond b: everything above the
\* cutoff up to chi_max, and at least one singular value
RankChoices(c, b, p) ==
    IF p.svd_cut THEN 1..Min(p.chi_max, FullRank(c, b))
    ELSE {Min(p.chi_max, FullRank(c, b))}

\* the discarded weight of a truncation from full singular values down to r
Discarded(r, full) == IF r < full THEN DiscardW ELSE Zero

\* an accumulator that keeps only the last discarded weight
AccumulateLast(acc, w) == w

\* accumulate(discardedNormSquared)
Accumulate(acc, w) == FAdd(acc, w)

(***************************************************************************)
(* Trotter schedule (section 4.4).                                         *)
(***************************************************************************)
\* number of sub-steps of one time step: [a b], [a b a], [a b a2 b c d c b a2 b a]
SubSteps(order) == CASE order = 1 -> 2 [] order = 2 -> 3 [] order = 4 -> 11

\* parities of the sub-steps of one time step, odd bonds first
Trotter(order) == [i \in 1..SubSteps(order) |-> i % 2]

RECURSIVE BondsFrom(_, _)
BondsFrom(b, last) ==
    IF b > last THEN <<>>
    ELSE <<[bond |-> b, clifford |-> FALSE]>> \o BondsFrom(b + 2, last)

\* the gates of a sub-step: the bonds of one parity, left to right
BondsOf(parity, L) == BondsFrom(IF parity = 1 THEN 1 ELSE 2, L - 1)

\* the bond the Clifford gate acts on
CliffordBond(L) == L \div 2

\* a period test that fires on every sub-step from the k-th on
CliffordDueFrom(n, k) == k > 0 /\ n >= k

\* the Clifford gate is due after sub-step n of period k (k = 0: not provided)
CliffordDue(n, k) == k > 0 /\ n % k = 0



(***************************************************************************)
(* The script's run loop (tebd_proj.py lines 84-99) around the engine.     *)
(***************************************************************************)
\* a record that holds the time of the start instead of the engine's clock
RecordStale == [t |-> Zero, trunc_err |-> trunc_err]

\* the record measurement() appends
Record == [t |-> evolved_time, trunc_err |-> trunc_err]

\* a measurement that overwrites the history
MeasurementOverwrite(d) == <<Record>>

\* measurement(eng, data): one more record at the end of every list
Measurement(d) == Append(d, Record)

\* a failure path that hands back an empty history
DataAfterRaiseCleared(d) == <<>>

\* an exception leaving eng.run() meets no handler: data stays as it is
DataAfterRaise(d) == d

\* a loop test with its operands swapped
DriverLoopCondReversed(t, e) == Less(e, t)

\* while eng.evolved_time < 20.
DriverLoopCond(t, e) == Less(t, e)

\* the engine's clock after one run() of N_steps = 1
EngineAdvance(t, d) == FAdd(t, d)

\* data = measurement(eng, None)
Measure0 ==
    /\ pc = "start"
    /\ data' = Measurement(<<>>)
    /\ pc' = "test"
    /\ UNCHANGED <<params, evolved_time, trunc_err, chi, todo, gates, substeps,
                   cliffordAt, steps>>
    /\ UNCHANGED runVars
    /\ UNCHANGED otherVars

\* the loop test holds and eng.run() begins its first sub-step
BeginRun ==
    /\ pc = "test"
    /\ DriverLoopCond(evolved_time, params.evol_time)
    /\ todo' = Trotter(params.order)
    /\ gates' = BondsOf(Head(Trotter(params.order)), params.L)
    /\ pc' = "run"
    /\ UNCHANGED <<params, evolved_time, trunc_err, chi, substeps, cliffordAt,
                   steps, data>>
    /\ UNCHANGED runVars
    /\ UNCHANGED otherVars

\* applyTwoSiteGate on the next bond: SVD, truncation, accumulation
ApplyTwoSiteGate ==
    /\ pc = "run"
    /\ gates # <<>>
    /\ LET g == Head(gates)
       IN  \E r \in RankChoices(chi, g.bond, params) :
             /\ chi' = [chi EXCEPT ![g.bond] = r]
             /\ trunc_err' =
                  Accumulate(trunc_err, Discarded(r, FullRank(chi, g.bond)))
             /\ cliffordAt' =
                  IF g.clifford
                  THEN Append(cliffordAt, [at |-> substeps, bond |-> g.bond])
                  ELSE cliffordAt
    /\ gates' = Tail(gates)
    /\ UNCHANGED <<params, pc, evolved_time, todo, substeps, steps, data>>
    /\ UNCHANGED runVars
    /\ UNCHANGED otherVars

\* the SVD of the next gate raises: the exception leaves run() and the loop
GateFails ==
    /\ pc = "run"
    /\ gates # <<>>
    /\ pc' = "failed"
    /\ data' = DataAfterRaise(data)
    /\ UNCHANGED <<params, evolved_time, trunc_err, chi, todo, gates, substeps,
                   cliffordAt, steps>>
    /\ UNCHANGED runVars
    /\ UNCHANGED otherVars

\* a sub-step is through: count it, queue the Clifford gate when it is due,
\* then the gates of the next sub-step
EndSubStep ==
    /\ pc = "run"
    /\ gates = <<>>
    /\ todo # <<>>
    /\ substeps' = substeps + 1
    /\ todo' = Tail(todo)
    /\ gates' =
         (IF CliffordDue(substeps + 1, params.clifford_step)
          THEN <<[bond |-> CliffordBond(params.L), clifford |-> TRUE]>>
          ELSE <<>>)
         \o (IF Tail(todo) # <<>> THEN BondsOf(Head(Tail(todo)), params.L)
             ELSE <<>>)
    /\ UNCHANGED <<params, pc, evolved_time, trunc_err, chi, cliffordAt, steps,
                   data>>
    /\ UNCHANGED runVars
    /\ UNCHANGED otherVars

\* run() returns: the clock advances by dt
EndRun ==
    /\ pc = "run"
    /\ gates = <<>>
    /\ todo = <<>>
    /\ evolved_time' = EngineAdvance(evolved_time, params.dt)
    /\ steps' = steps + 1
    /\ pc' = "measure"
    /\ UNCHANGED <<params, trunc_err, chi, todo, gates, substeps, cliffordAt,
                   data>>
    /\ UNCHANGED runVars
    /\ UNCHANGED otherVars

\* measurement(eng, data) after run()
Measure ==
    /\ pc = "measure"
    /\ data' = Measurement(data)
    /\ pc' = "test"
    /\ UNCHANGED <<params, evolved_time, trunc_err, chi, todo, gates, substeps,
                   cliffordAt, steps>>
    /\ UNCHANGED runVars
    /\ UNCHANGED otherVars

\* the loop test fails: the script goes on to the plots
Finish ==
    /\ pc = "test"
    /\ ~DriverLoopCond(evolved_time, params.evol_time)
    /\ pc' = "done"
    /\ UNCHANGED <<params, evolved_time, trunc_err, chi, todo, gates, substeps,
                   cliffordAt, steps, data>>
    /\ UNCHANGED runVars
    /\ UNCHANGED otherVars

(***************************************************************************)
(* The model builder XXZChain (tenpy/algorithms/tebd_clifford.py lines     *)
(* 20-48, the same class in tebd_proj.py) and the graph and term list of   *)
(* the exact solution (src/utils.py).  Sites are numbered from 0.          *)
(* Coupling constants are counted in tenths.                               *)
(***************************************************************************)
Couplings == {-5, -1, 7}

\* the dicts a caller hands to XXZChain, with the L handed to get_exact_mags
ModelParams == [L : Ls, bc : Bcs, Jxy : Couplings, Jz : Couplings, hz : Couplings]

\* the neighbour of site i at distance 1 in Chain(L, bc): the next site, the
\* first site again across a periodic boundary, none across an open one
RECURSIVE NeighbourPairs(_, _, _)
NeighbourPairs(i, L, bc) ==
    IF i >= L THEN <<>>
    ELSE (IF i + 1 < L THEN << <<i, i + 1>> >>
          ELSE IF bc = "periodic" THEN << <<i, 0>> >>
          ELSE <<>>)
         \o NeighbourPairs(i + 1, L, bc)

\* add_coupling(strength, 0, op, 0, op, 1): one term on every neighbour pair
add_coupling(strength, op, pairs) ==
    [k \in 1..Len(pairs) |->
        [op |-> op, i |-> pairs[k][1], j |-> pairs[k][2], strength |-> strength]]

\* add_onsite(strength, 0, op): one term on every site
add_onsite(strength, op, L) ==
    [k \in 1..L |-> [op |-> op, i |-> k - 1, strength |-> strength]]

\* number of bonds that contain site s
Degree(pairs, s) ==
    Cardinality({k \in 1..Len(pairs) : s \in {pairs[k][1], pairs[k][2]}})

\* a split that gives every bond half of the field of each of its sites
OnsiteShareHalf(pairs, s) == 1

\* the share, in halves, of the on-site terms of site s that each of its bonds
\* carries: all of it for a site with one bond, half for a site with two
OnsiteShare(pairs, s) == 2 \div Degree(pairs, s)

\* calc_H_bond(): per bond, its coupling terms and the shares of the on-site
\* terms of its two sites
calc_H_bond(pairs, coupling_terms) ==
    [k \in 1..Len(pairs) |->
        [pair |-> pairs[k],
         terms |-> SelectSeq(coupling_terms,
                             LAMBDA t : t.i = pairs[k][1] /\ t.j = pairs[k][2]),
         onsite |-> <<OnsiteShare(pairs, pairs[k][1]),
                      OnsiteShare(pairs, pairs[k][2])>>]]

\* XXZChain.__init__ when Chain accepts L and bc
XXZChain(p) ==
    LET pairs == NeighbourPairs(0, p.L, p.bc)
        coupling_terms == add_coupling(p.Jxy, "Sigmax", pairs)
                          \o add_coupling(p.Jxy, "Sigmay", pairs)
                          \o add_coupling(p.Jz, "Sigmaz", pairs)
    IN  [L |-> p.L, bc |-> p.bc,
         coupling_terms |-> coupling_terms,
         onsite_terms |-> add_onsite(p.hz, "Sigmaz", p.L),
         H_bond |-> calc_H_bond(pairs, coupling_terms)]

\* model = XXZChain(model_params)
XXZChain_init ==
    /\ mpc = "new"
    /\ IF LatticeAccepts(model_params.L, model_params.bc)
       THEN model' = <<XXZChain(model_params)>> /\ mpc' = "model"
       ELSE model' = <<>> /\ mpc' = "error"
    /\ UNCHANGED <<model_params, graph, sparse_list>>
    /\ UNCHANGED <<runVars, engVars, confVars>>

\* an edge test that also passes for the last node
LineEdgeCondAll(i, n_qubits) == i < n_qubits

\* if i < n_qubits-1
LineEdgeCond(i, n_qubits) == i < n_qubits - 1

\* the loop of get_line_graph over the nodes i, i+1, ..., n_qubits-1
RECURSIVE EdgeListFrom(_, _)
EdgeListFrom(i, n_qubits) ==
    IF i >= n_qubits THEN <<>>
    ELSE (IF LineEdgeCond(i, n_qubits) THEN << <<i, i + 1>> >> ELSE <<>>)
         \o EdgeListFrom(i + 1, n_qubits)

\* the nodes a graph has once the edges are added: add_edges_from adds the
\* end points it does not know yet
RECURSIVE EndPoints(_)
EndPoints(edges) ==
    IF edges = <<>> THEN {}
    ELSE {Head(edges)[1], Head(edges)[2]} \cup EndPoints(Tail(edges))

\* get_line_graph(n_qubits)
get_line_graph(n_qubits) ==
    LET edge_list == EdgeListFrom(0, n_qubits)
    IN  [nodes |-> (0..(n_qubits - 1)) \cup EndPoints(edge_list),
         edges |-> edge_list]

\* the nodes of a graph in increasing order
RECURSIVE NodeList(_)
NodeList(nodes) ==
    IF nodes = {} THEN <<>>
    ELSE LET q == CHOOSE x \in nodes : \A y \in nodes : x <= y
         IN  <<q>> \o NodeList(nodes \ {q})

\* the three terms get_heisenberg_hamiltonian appends for each edge
RECURSIVE EdgeTerms(_, _, _)
EdgeTerms(edges, Jxy, Jz) ==
    IF edges = <<>> THEN <<>>
    ELSE LET e == Head(edges)
         IN  <<[op |-> "ZZ", qubits |-> e, coeff |-> Jz],
               [op |-> "XX", qubits |-> e, coeff |-> Jxy],
               [op |-> "YY", qubits |-> e, coeff |-> Jxy]>>
             \o EdgeTerms(Tail(edges), Jxy, Jz)

\* get_heisenberg_hamiltonian(graph, Jxy, Jz, hz): the list handed to
\* SparsePauliOp.from_sparse_list
get_heisenberg_hamiltonian(g, Jxy, Jz, hz) ==
    LET nodes == NodeList(g.nodes)
    IN  [k \in 1..Len(nodes) |-> [op |-> "Z", qubits |-> <<nodes[k]>>, coeff |-> hz]]
        \o EdgeTerms(g.edges, Jxy, Jz)

\* get_exact_mags: graph = get_line_graph(L)
GetLineGraph ==
    /\ mpc = "model"
    /\ graph' = <<get_line_graph(model_params.L)>>
    /\ mpc' = "graph"
    /\ UNCHANGED <<model_params, model, sparse_list>>
    /\ UNCHANGED <<runVars, engVars, confVars>>

\* get_exact_mags: get_heisenberg_hamiltonian(graph, Jxy=Jxy, Jz=Jz, hz=hz)
GetHeisenbergHamiltonian ==
    /\ mpc = "graph"
    /\ sparse_list' =
         <<get_heisenberg_hamiltonian(graph[1], model_params.Jxy,
                                      model_params.Jz, model_params.hz)>>
    /\ mpc' = "ham"
    /\ UNCHANGED <<model_params, model, graph>>
    /\ UNCHANGED <<runVars, engVars, confVars>>

(***************************************************************************)
(* Config (tenpy/tools/params.py).  Python dicts, sets and Config objects  *)
(* live on a heap: dicts[n], sets[n] and objs[n] are the n-th dict, set    *)
(* and Config created, and a Config holds the numbers of its options dict  *)
(* and of its unused set, so that two Configs can hold the same set.       *)
(* print_if_verbose only prints and is left out; the inside of a           *)
(* sub-config is not followed, it is the one value SubConfig.              *)
(***************************************************************************)
MaxOps == 3

Keys == {"a", "b", "verbose"}
Values == {"1", "2"}
SubConfig == "Config"
None == "None"

\* Python dict operations on a dict d
dict_set(d, k, v) == [x \in (DOMAIN d) \cup {k} |-> IF x = k THEN v ELSE d[x]]
dict_del(d, k) == [x \in (DOMAIN d) \ {k} |-> d[x]]
dict_get(d, k, default) == IF k \in DOMAIN d THEN d[k] ELSE default

\* a setdefault that overwrites the value of a key that is present
dict_setdefault_overwrite(d, k, default) == dict_set(d, k, default)

\* d.setdefault(k, default), the dict afterwards; its value is d[k] afterwards
dict_setdefault(d, k, default) == IF k \in DOMAIN d THEN d ELSE dict_set(d, k, default)

\* the dicts a caller hands to Config(config, name)
InitDicts == UNION {[ks -> {"1"}] : ks \in SUBSET Keys}

Options(i) == dicts[objs[i].options]
Unused(i) == sets[objs[i].unused]

\* s.discard(k) / s.add(k) on the set object number n
Discard(n, k) == [sets EXCEPT ![n] = @ \ {k}]
AddKey(n, k) == [sets EXCEPT ![n] = @ \cup {k}]

\* the outcome of the last call: what was called on which Config with which
\* key and second argument, and what it returned, raised or warned about
Outcome(op, i, k, arg, kind, val, keys) ==
    [op |-> op, obj |-> i, key |-> k, arg |-> arg,
     kind |-> kind, val |-> val, keys |-> keys]

\* a test that takes every key for a new one
IsNewKeyAlways(i, key) == TRUE

\* key not in self.keys()
IsNewKey(i, key) == key \notin DOMAIN Options(i)

\* val = self[key]
Config_getitem(i, key) ==
    /\ nops < MaxOps
    /\ i \in DOMAIN objs
    /\ IF key \in DOMAIN Options(i)
       THEN /\ sets' = Discard(objs[i].unused, key)
            /\ ret' = Outcome("__getitem__", i, key, None, "return", Options(i)[key], {})
            /\ claimUnread' = [claimUnread EXCEPT ![i] = @ \ {key}]
       ELSE /\ ret' = Outcome("__getitem__", i, key, None, "raise", "KeyError", {})
            /\ UNCHANGED <<sets, claimUnread>>
    /\ nops' = nops + 1
    /\ UNCHANGED <<dicts, objs>>
    /\ UNCHANGED <<runVars, engVars, modelVars>>

\* self[key] = value
Config_setitem(i, key, value) ==
    /\ nops < MaxOps
    /\ i \in DOMAIN objs
    /\ sets' = IF IsNewKey(i, key)
               THEN AddKey(objs[i].unused, key) ELSE sets
    /\ dicts' = [dicts EXCEPT ![objs[i].options] = dict_set(@, key, value)]
    /\ claimUnread' =
         IF key \notin DOMAIN Options(i) /\ key # "verbose"
         THEN [claimUnread EXCEPT ![i] = @ \cup {key}] ELSE claimUnread
    /\ ret' = Outcome("__setitem__", i, key, value, "return", None, {})
    /\ nops' = nops + 1
    /\ UNCHANGED objs
    /\ UNCHANGED <<runVars, engVars, modelVars>>

\* del self[key]: the key leaves the unused set before the dict raises
Config_delitem(i, key) ==
    /\ nops < MaxOps
    /\ i \in DOMAIN objs
    /\ sets' = Discard(objs[i].unused, key)
    /\ IF key \in DOMAIN Options(i)
       THEN /\ dicts' = [dicts EXCEPT ![objs[i].options] = dict_del(@, key)]
            /\ ret' = Outcome("__delitem__", i, key, None, "return", None, {})
       ELSE /\ ret' = Outcome("__delitem__", i, key, None, "raise", "KeyError", {})
            /\ UNCHANGED dicts
    /\ nops' = nops + 1
    /\ UNCHANGED <<objs, claimUnread>>
    /\ UNCHANGED <<runVars, engVars, modelVars>>

\* val = self.get(key, default)
Config_get(i, key, default) ==
    /\ nops < MaxOps
    /\ i \in DOMAIN objs
    /\ LET after == dict_setdefault(Options(i), key, default)
       IN  /\ dicts' = [dicts EXCEPT ![objs[i].options] = after]
           /\ ret' = Outcome("get", i, key, default, "return", after[key], {})
    /\ sets' = Discard(objs[i].unused, key)
    /\ claimUnread' = [claimUnread EXCEPT ![i] = @ \ {key}]
    /\ nops' = nops + 1
    /\ UNCHANGED objs
    /\ UNCHANGED <<runVars, engVars, modelVars>>

\* self.setdefault(key, default)
Config_setdefault(i, key, default) ==
    /\ nops < MaxOps
    /\ i \in DOMAIN objs
    /\ dicts' = [dicts EXCEPT ![objs[i].options] = dict_setdefault(@, key, default)]
    /\ sets' = Discard(objs[i].unused, key)
    /\ ret' = Outcome("setdefault", i, key, default, "return", None, {})
    /\ nops' = nops + 1
    /\ UNCHANGED <<objs, claimUnread>>
    /\ UNCHANGED <<runVars, engVars, modelVars>>

\* self.subconfig(key): a plain value under key is no mapping, and the test
\* 'verbose' not in subconfig raises before anything is changed
Config_subconfig(i, key) ==
    /\ nops < MaxOps
    /\ i \in DOMAIN objs
    /\ IF key \in DOMAIN Options(i) /\ Options(i)[key] # SubConfig
       THEN /\ ret' = Outcome("subconfig", i, key, None, "raise", "TypeError", {})
            /\ UNCHANGED <<dicts, sets, claimUnread>>
       ELSE /\ dicts' = [dicts EXCEPT ![objs[i].options] = dict_set(@, key, SubConfig)]
            /\ sets' = Discard(objs[i].unused, key)
            /\ claimUnread' = [claimUnread EXCEPT ![i] = @ \ {key}]
            /\ ret' = Outcome("subconfig", i, key, None, "return", SubConfig, {})
    /\ nops' = nops + 1
    /\ UNCHANGED objs
    /\ UNCHANGED <<runVars, engVars, modelVars>>

\* self.deprecated_alias(old_key, new_key)
Config_deprecated_alias(i, old_key, new_key) ==
    /\ nops < MaxOps
    /\ i \in DOMAIN objs
    /\ IF old_key \in DOMAIN Options(i)
       THEN /\ dicts' = [dicts EXCEPT ![objs[i].options] =
                            dict_set(@, new_key, @[old_key])]
            /\ sets' = [sets EXCEPT ![objs[i].unused] = (@ \ {old_key}) \cup {new_key}]
            /\ ret' = Outcome("deprecated_alias", i, old_key, new_key, "warn", None, {old_key})
       ELSE /\ ret' = Outcome("deprecated_alias", i, old_key, new_key, "return", None, {})
            /\ UNCHANGED <<dicts, sets>>
    /\ nops' = nops + 1
    /\ UNCHANGED <<objs, claimUnread>>
    /\ UNCHANGED <<runVars, engVars, modelVars>>

\* self.warn_unused(): the warning lists sorted(unused)
Config_warn_unused(i) ==
    /\ nops < MaxOps
    /\ i \in DOMAIN objs
    /\ ret' = IF Cardinality(Unused(i)) > 0
              THEN Outcome("warn_unused", i, None, None, "warn", None, Unused(i))
              ELSE Outcome("warn_unused", i, None, None, "return", None, {})
    /\ nops' = nops + 1
    /\ UNCHANGED <<dicts, sets, objs, claimUnread>>
    /\ UNCHANGED <<runVars, engVars, modelVars>>

\* a copy that wraps the very dict of the original
CopiedDictAliased(i) == [heap |-> dicts, id |-> objs[i].options]

\* self.options.copy(): a new dict with the same keys and values
CopiedDict(i) == [heap |-> Append(dicts, Options(i)), id |-> Len(dicts) + 1]

\* res = self.copy(share_unused): a Config around a copy of the options with
\* an unused set of its own, which is dropped again for the original's set
\* when share_unused holds
Config_copy(i, share_unused) ==
    /\ nops < MaxOps
    /\ i \in DOMAIN objs
    /\ dicts' = CopiedDict(i).heap
    /\ sets' = Append(sets, (DOMAIN Options(i)) \ {"verbose"})
    /\ objs' = Append(objs,
                 [options |-> CopiedDict(i).id,
                  unused |-> IF share_unused THEN objs[i].unused ELSE Len(sets'),
                  verbose |-> dict_get(Options(i), "verbose", "1"),
                  name |-> objs[i].name])
    /\ claimUnread' = Append(claimUnread, (DOMAIN Options(i)) \ {"verbose"})
    /\ ret' = Outcome("copy", i, None, IF share_unused THEN "True" ELSE "False",
                      "return", None, {})
    /\ nops' = nops + 1
    /\ UNCHANGED <<runVars, engVars, modelVars>>

(***************************************************************************)
(* Specifications.                                                         *)
(***************************************************************************)
\* state of main.py before TEBDClifford(config)
RunIdle ==
    /\ solver = <<>>
    /\ rpc = "new"
    /\ time = Zero
    /\ iters = 0

\* state of tebd_proj.py after line 82: engine built on the product state
EngIdle ==
    /\ pc = "start"
    /\ evolved_time = Zero
    /\ trunc_err = Zero
    /\ chi = ProductState(params.L)
    /\ todo = <<>>
    /\ gates = <<>>
    /\ substeps = 0
    /\ cliffordAt = <<>>
    /\ steps = 0
    /\ data = <<>>

\* tebd_proj.py lines 49-59
RefModelParams == [L |-> RefL, bc |-> "open", Jxy |-> -1, Jz |-> -5, hz |-> 7]

\* no model, graph or term list built yet
ModelIdle ==
    /\ model = <<>>
    /\ graph = <<>>
    /\ sparse_list = <<>>
    /\ mpc = "new"

\* no Config has been made
ConfIdle ==
    /\ dicts = <<>>
    /\ sets = <<>>
    /\ objs = <<>>
    /\ ret = Outcome("none", 0, None, None, "return", None, {})
    /\ nops = 0
    /\ claimUnread = <<>>

\* tebd_proj.py
Init ==
    /\ params \in Params
    /\ EngIdle
    /\ config = RefConfig
    /\ RunIdle
    /\ model_params = RefModelParams
    /\ ModelIdle
    /\ ConfIdle

Next ==
    \/ Measure0
    \/ BeginRun
    \/ ApplyTwoSiteGate
    \/ GateFails
    \/ EndSubStep
    \/ EndRun
    \/ Measure
    \/ Finish

Spec == Init /\ [][Next]_vars

\* main.py
RunInit ==
    /\ config \in Configs
    /\ RunIdle
    /\ params = RefParams
    /\ EngIdle
    /\ model_params = RefModelParams
    /\ ModelIdle
    /\ ConfIdle

RunNext ==
    \/ TEBDClifford_init
    \/ RunEnter
    \/ RunIter
    \/ RunExit

SpecRun == RunInit /\ [][RunNext]_vars

\* the interpreter keeps executing main.py while it has a next statement
FairSpecRun == SpecRun /\ WF_vars(RunNext)

\* the model builder and the exact solution's Hamiltonian, for every dict
ModelInit ==
    /\ model_params \in ModelParams
    /\ ModelIdle
    /\ config = RefConfig
    /\ RunIdle
    /\ params = RefParams
    /\ EngIdle
    /\ ConfIdle

ModelNext ==
    \/ XXZChain_init
    \/ GetLineGraph
    \/ GetHeisenbergHamiltonian

SpecModel == ModelInit /\ [][ModelNext]_vars

\* cfg = Config(config, "cfg") for a caller's dict, then calls on cfg and on
\* its copies
ConfigInit ==
    /\ \E d \in InitDicts :
          /\ dicts = <<d>>
          /\ sets = <<(DOMAIN d) \ {"verbose"}>>
          /\ objs = <<[options |-> 1, unused |-> 1,
                       verbose |-> dict_get(d, "verbose", "1"), name |-> "cfg"]>>
          /\ claimUnread = <<(DOMAIN d) \ {"verbose"}>>
    /\ ret = Outcome("__init__", 1, None, None, "return", None, {})
    /\ nops = 0
    /\ model_params = RefModelParams
    /\ ModelIdle
    /\ config = RefConfig
    /\ RunIdle
    /\ params = RefParams
    /\ EngIdle

ConfigNext ==
    \/ \E i \in 1..(MaxOps + 1), key \in Keys : Config_getitem(i, key)
    \/ \E i \in 1..(MaxOps + 1), key \in Keys, value \in Values :
          Config_setitem(i, key, value)
    \/ \E i \in 1..(MaxOps + 1), key \in Keys : Config_delitem(i, key)
    \/ \E i \in 1..(MaxOps + 1), key \in Keys, default \in Values :
          Config_get(i, key, default)
    \/ \E i \in 1..(MaxOps + 1), key \in Keys, default \in Values :
          Config_setdefault(i, key, default)
    \/ \E i \in 1..(MaxOps + 1), key \in Keys : Config_subconfig(i, key)
    \/ \E i \in 1..(MaxOps + 1), old_key \in Keys, new_key \in Keys :
          Config_deprecated_alias(i, old_key, new_key)
    \/ \E i \in 1..(MaxOps + 1) : Config_warn_unused(i)
    \/ \E i \in 1..(MaxOps + 1), share_unused \in BOOLEAN :
          Config_copy(i, share_unused)

SpecConfig == ConfigInit /\ [][ConfigNext]_vars



(***************************************************************************)
(* Properties.                                                             *)
(***************************************************************************)
\* the clock of TEBDClifford.run exists
HasClock == rpc \in {"loop", "done"}

\* C1 as stated: after n iterations the clock equals n * dt exactly, and the
\* clock never decreases.
C1_ClockExact ==
    /\ [](HasClock => time = Times(iters, config.dt))
    /\ [][Leq(time, time')]_vars

\* C1, amended: after n iterations the clock differs from n * dt by at most n
\* half units in the last place of the clock (the rounding of n binary64
\* additions), and the clock never decreases.
C1_ClockWithinRounding ==
    /\ [](HasClock =>
            Leq(Dist(time, Times(iters, config.dt)), Small(iters * HalfUlp(time))))
    /\ [][Leq(time, time')]_vars

\* a run of at least three iterations has finished with a clock that is not n * dt
C1_Witness ==
    /\ rpc = "done"
    /\ iters >= 3
    /\ time # Times(iters, config.dt)

C7_InvalidConfigRejected ==
    (~ValidConfig(config) /\ rpc # "new") => (rpc = "error" /\ solver = <<>>)



\* the binary64 value 20.000000000000014 (20 + 4 units in the last place)
Dbl_20_000000000000014 == <<16384, 0, 81920>>

\* C3 as stated: the reference scenario ends with evolved_time equal to 20.0
\* and exactly 200 measurement records.
C3_RefExact ==
    (params = RefParams /\ pc = "done") =>
        (evolved_time = FromInt(RefEvolTime) /\ Len(data) = 200)

\* C3, amended: the reference scenario, when no step fails, ends after exactly
\* 200 steps with evolved_time = 20.000000000000014 (at least 20 and within
\* 200 half units in the last place of 20.0), and with 201 records: the one
\* taken before the loop at t = 0 and one per step.
C3_RefScenario ==
    (params = RefParams /\ pc = "done") =>
        /\ steps = 200
        /\ evolved_time = Dbl_20_000000000000014
        /\ Leq(FromInt(RefEvolTime), evolved_time)
        /\ Leq(Dist(evolved_time, FromInt(RefEvolTime)),
               Small(200 * HalfUlp(evolved_time)))
        /\ Len(data) = 201
        /\ data[1].t = Zero
        /\ data[201].t = evolved_time

\* the reference scenario has run to completion
C3_Witness == params = RefParams /\ pc = "done"

\* C4: the truncation error accumulator starts at zero, is never negative and
\* never decreases from one state of a run to the next.
C4_TruncErrMonotone ==
    /\ [](Leq(Zero, trunc_err) /\ (pc = "start" => trunc_err = Zero))
    /\ [][Leq(trunc_err, trunc_err')]_vars

\* a step that discarded weight has been followed by a step that discarded none
C4_Witness ==
    /\ Len(data) = 3
    /\ Less(data[1].trunc_err, data[2].trunc_err)
    /\ data[3].trunc_err = data[2].trunc_err

\* C5: from the product state on, every bond has a dimension between 1 and
\* chi_max in every state between two gate applications, the next gate always
\* has a dimension of at least 1 to truncate to, and a chain of two sites has
\* exactly one bond.
C5_BondDimensions ==
    /\ DOMAIN chi = 1..(params.L - 1)
    /\ params.L = 2 => Len(chi) = 1
    /\ pc = "start" => \A b \in DOMAIN chi : chi[b] = 1
    /\ \A b \in DOMAIN chi : 1 <= chi[b] /\ chi[b] <= params.chi_max
    /\ (pc = "run" /\ gates # <<>>) =>
          /\ RankChoices(chi, Head(gates).bond, params) # {}
          /\ \A r \in RankChoices(chi, Head(gates).bond, params) : r >= 1

\* a chain of two sites has run to completion with its one bond grown to 2
C5_Witness ==
    /\ params.L = 2
    /\ pc = "done"
    /\ steps >= 1
    /\ chi[1] = 2

LifecycleMove(s, t) ==
    <<s, t>> \in
        {<<"Idle", "Idle">>, <<"Idle", "Running">>, <<"Running", "Running">>,
         <<"Running", "Completed">>, <<"Running", "Failed">>,
         <<"Completed", "Completed">>, <<"Failed", "Failed">>}

\* C9: the lifecycle only moves Idle -> Running -> Completed or Failed,
\* Completed and Failed are left by no step (clock and MPS stay as they are),
\* and Completed is never entered while evolved_time < evol_time.
C9_Lifecycle ==
    /\ [][LifecycleMove(EngineState, EngineState')]_vars
    /\ [][(EngineState \in {"Completed", "Failed"}) =>
            UNCHANGED <<pc, evolved_time, chi, steps>>]_vars
    /\ [](pc = "done" => ~Less(evolved_time, params.evol_time))

\* a run of two steps has completed
C9_Witness == pc = "done" /\ steps = 2 /\ EngineState = "Completed"

\* C10: with period k >= 1 the Clifford gate has been applied, at its bond,
\* exactly once after each of the sub-steps k, 2k, 3k, ... finished so far
\* (the application after the latest sub-step may still be queued as the next
\* gate); with no period it is never applied.
C10_CliffordPeriod ==
    LET k == params.clifford_step
        queued == IF gates # <<>> /\ Head(gates).clifford THEN 1 ELSE 0
        m == IF k = 0 THEN 0 ELSE substeps \div k
    IN  /\ Len(cliffordAt) + queued = m
        /\ \A i \in 1..Len(cliffordAt) :
              /\ cliffordAt[i].at = i * k
              /\ cliffordAt[i].bond = params.L \div 2
        /\ queued = 1 => (k >= 1 /\ substeps % k = 0)

\* with period 3 the Clifford gate has been applied twice
C10_Witness ==
    /\ params.clifford_step = 3
    /\ Len(cliffordAt) = 2
    /\ substeps >= 6

\* the script is inside eng.run(): a step is in progress
StepInProgress == pc = "run"

\* C11 as stated: a record is only ever added after a step has completely
\* finished, exactly one per step.
C11_RecordOnlyAfterStep ==
    /\ [][data' # data => (pc = "measure" /\ Len(data') = Len(data) + 1)]_vars
    /\ []((~StepInProgress /\ pc # "measure") => Len(data) = steps)

\* C11, amended: apart from the one record taken before the first step, a
\* record is added only after a step has completely finished (no gate and no
\* sub-step left, the clock advanced past the previous record) and never
\* while a step is in progress; the record holds the clock and the truncation
\* error of that moment and the measurement changes neither; every finished
\* step adds exactly one record before the next step begins, so there are
\* steps + 1 records and their times never decrease.
C11_MeasurementOrder ==
    /\ [][data' # data =>
            /\ ~StepInProgress
            /\ pc \in {"start", "measure"}
            /\ gates = <<>> /\ todo = <<>>
            /\ pc = "start" => (steps = 0 /\ data = <<>>)
            /\ pc = "measure" =>
                  (steps >= 1 /\ Less(data[Len(data)].t, evolved_time))
            /\ data' = Append(data, [t |-> evolved_time, trunc_err |-> trunc_err])
            /\ UNCHANGED <<evolved_time, trunc_err, chi, steps>>]_vars
    /\ [][steps' # steps => (steps' = steps + 1 /\ pc' = "measure")]_vars
    /\ [][(pc = "measure" /\ pc' # "measure") => Len(data') = Len(data) + 1]_vars
    /\ [](Len(data) = steps + (IF pc \in {"start", "measure"} THEN 0 ELSE 1))
    /\ [](\A i \in 1..(Len(data) - 1) : Leq(data[i].t, data[i + 1].t))

\* two steps have finished and each has been measured, at growing times
C11_Witness ==
    /\ pc = "test"
    /\ steps = 2
    /\ Len(data) = 3
    /\ Less(data[2].t, data[3].t)
    /\ data[3].t = evolved_time

\* the bonds section 4.1 lists for a chain of L sites
ExpectedBonds(L, bc) ==
    {<<i, i + 1>> : i \in 0..(L - 2)}
        \cup (IF bc = "periodic" THEN {<<L - 1, 0>>} ELSE {})

\* the elements of a sequence, and how many of its entries pass a test
Range(s) == {s[k] : k \in DOMAIN s}
Count(s, Test(_)) == Cardinality({k \in DOMAIN s : Test(s[k])})

\* the share of the on-site terms of site s carried by all bonds together
RECURSIVE TotalShare(_, _)
TotalShare(H_bond, s) ==
    IF H_bond = <<>> THEN 0
    ELSE LET h == Head(H_bond)
         IN  (IF h.pair[1] = s THEN h.onsite[1] ELSE 0)
             + (IF h.pair[2] = s THEN h.onsite[2] ELSE 0)
             + TotalShare(Tail(H_bond), s)

\* C12: for every L >= 2 with open or periodic boundaries the model is built
\* and has exactly the bonds (i, i+1), i = 0..L-2, plus the wrap bond (L-1, 0)
\* when periodic, each of them once; summed over the bonds every site's field
\* term is counted exactly once (two halves) and every bond carries exactly
\* one Sigmax-Sigmax, one Sigmay-Sigmay and one Sigmaz-Sigmaz coupling of its
\* pair of sites and nothing else.  The graph of the exact solution has the
\* open bonds as its edges, and its term list holds one Z per site and one
\* ZZ, XX and YY per edge.
C12_ModelBonds ==
    LET L == model_params.L
        bc == model_params.bc
    IN  /\ (L >= 2 /\ bc \in {"open", "periodic"} /\ mpc # "new") => model # <<>>
        /\ model # <<>> =>
              LET m == model[1]
                  bonds == [k \in DOMAIN m.H_bond |-> m.H_bond[k].pair]
              IN  /\ Range(bonds) = ExpectedBonds(L, bc)
                  /\ Len(bonds) = Cardinality(ExpectedBonds(L, bc))
                  /\ \A s \in 0..(L - 1) :
                        /\ TotalShare(m.H_bond, s) = 2
                        /\ Count(m.onsite_terms, LAMBDA t : t.i = s) = 1
                  /\ \A k \in DOMAIN m.H_bond :
                        /\ Len(m.H_bond[k].terms) = 3
                        /\ \A op \in {"Sigmax", "Sigmay", "Sigmaz"} :
                              Count(m.H_bond[k].terms,
                                    LAMBDA t : t.op = op /\ <<t.i, t.j>> = bonds[k]) = 1
                  /\ Len(m.coupling_terms) = 3 * Len(bonds)
        /\ graph # <<>> =>
              /\ graph[1].nodes = 0..(L - 1)
              /\ Range(graph[1].edges) = ExpectedBonds(L, "open")
              /\ Len(graph[1].edges) = L - 1
        /\ sparse_list # <<>> =>
              LET sl == sparse_list[1]
              IN  /\ Len(sl) = L + 3 * (L - 1)
                  /\ \A q \in 0..(L - 1) :
                        Count(sl, LAMBDA t : t.op = "Z" /\ t.qubits = <<q>>) = 1
                  /\ \A e \in ExpectedBonds(L, "open") :
                        \A op \in {"ZZ", "XX", "YY"} :
                            Count(sl, LAMBDA t : t.op = op /\ t.qubits = e) = 1

\* a periodic chain of three sites has been built with its wrap bond, and the
\* term list of the exact solution of three sites is complete
C12_Witness ==
    /\ mpc = "ham"
    /\ model_params.L = 3
    /\ model_params.bc = "periodic"
    /\ Len(model[1].H_bond) = 3
    /\ model[1].H_bond[3].pair = <<2, 0>>
    /\ Len(sparse_list[1]) = 9

\* the last step was a call of one of these methods on a Config
Called(ops) == nops' = nops + 1 /\ ret'.op \in ops

\* the options of Config i before and after the step
OptionsBefore(i) == dicts[objs[i].options]
OptionsAfter(i) == dicts'[objs[i].options]

\* C13: get(key, default) and setdefault(key, default) leave options[key] at
\* default when key was absent and at its old value when it was present, leave
\* every other key and every other dict as it was; get returns the resulting
\* options[key], setdefault returns None.
C13_GetLikeSetdefault ==
    [][Called({"get", "setdefault"}) =>
         LET i == ret'.obj
             k == ret'.key
         IN  /\ DOMAIN OptionsAfter(i) = (DOMAIN OptionsBefore(i)) \cup {k}
             /\ k \notin DOMAIN OptionsBefore(i) => OptionsAfter(i)[k] = ret'.arg
             /\ k \in DOMAIN OptionsBefore(i) => OptionsAfter(i)[k] = OptionsBefore(i)[k]
             /\ \A x \in (DOMAIN OptionsBefore(i)) \ {k} :
                   OptionsAfter(i)[x] = OptionsBefore(i)[x]
             /\ \A n \in (DOMAIN dicts) \ {objs[i].options} : dicts'[n] = dicts[n]
             /\ ret'.kind = "return"
             /\ ret'.val = IF ret'.op = "get" THEN OptionsAfter(i)[k] ELSE None]_vars

\* get with default "2" has returned the value "1" the key already had, and
\* an earlier call has put a default under a key that was absent
C13_Witness ==
    /\ ret.op = "get"
    /\ ret.arg = "2"
    /\ ret.val = "1"
    /\ Options(ret.obj)[ret.key] = "1"
    /\ \E k \in DOMAIN Options(ret.obj) : Options(ret.obj)[k] = "2"

\* C14 as stated: every key in a Config's unused set is a key of its options.
C14_UnusedWithinOptions ==
    \A i \in DOMAIN objs : Unused(i) \subseteq DOMAIN Options(i)

\* C15 as stated: warn_unused warns exactly when a key other than 'verbose'
\* was supplied (at construction or as a new key of __setitem__) and has not
\* since been read with __getitem__, get or subconfig, and it never reports
\* 'verbose'.
C15_WarnExactlyUnread ==
    ret.op = "warn_unused" =>
        /\ (ret.kind = "warn") <=> (claimUnread[ret.obj] # {})
        /\ "verbose" \notin ret.keys

\* what a call leaves in the unused set u of the Config it is made on
UnusedAfterCall(r, u, wasKey) ==
    CASE r.op = "__setitem__" -> IF wasKey THEN u ELSE u \cup {r.key}
      [] r.op \in {"__getitem__", "subconfig"} ->
            IF r.kind = "raise" THEN u ELSE u \ {r.key}
      [] r.op \in {"get", "setdefault", "__delitem__"} -> u \ {r.key}
      [] r.op = "deprecated_alias" ->
            IF wasKey THEN (u \ {r.key}) \cup {r.arg} ELSE u
      [] r.op \in {"warn_unused", "copy"} -> u

\* C15, amended: warn_unused warns exactly when the unused set of the Config
\* is not empty and reports exactly its keys.  The set starts as the keys
\* supplied at construction other than 'verbose'; a call through a Config
\* holding the set adds the key that __setitem__ sets if it is new ('verbose'
\* too) and the new key of deprecated_alias, removes the key that __getitem__,
\* get or subconfig reads, that setdefault is given, that is deleted or that
\* deprecated_alias replaces, and leaves it alone otherwise: overwriting a key
\* that has been read does not bring it back.
C15_WarnUnused ==
    /\ [](ret.op = "warn_unused" =>
            /\ (ret.kind = "warn") <=> (Unused(ret.obj) # {})
            /\ ret.keys = Unused(ret.obj))
    /\ [](nops = 0 => Unused(1) = (DOMAIN Options(1)) \ {"verbose"})
    /\ [][nops' = nops + 1 =>
            LET i == ret'.obj
                u == objs[i].unused
            IN  /\ sets'[u] = UnusedAfterCall(ret', sets[u],
                                              ret'.key \in DOMAIN OptionsBefore(i))
                /\ \A n \in (DOMAIN sets) \ {u} : sets'[n] = sets[n]]_vars

\* 'verbose', set as a new key after construction, is the one key reported
C15_Witness ==
    /\ ret.op = "warn_unused"
    /\ ret.kind = "warn"
    /\ ret.keys = {"verbose"}
    /\ nops = 3

\* the calls that read a key when they return
ReadCalls == {"__getitem__", "get", "subconfig"}

\* C16: copy returns a new Config around a new dict with the same keys and
\* values; no two Configs hold the same dict and a call through one Config
\* changes no dict but its own, so setting or deleting a key in one never
\* changes the options of the other.  With share_unused the copy holds the
\* unused set of the original, and a key read through either is marked used
\* in both; without it the copy has an unused set of its own (its keys other
\* than 'verbose') and a call through one leaves the other's set unchanged.
C16_Copy ==
    /\ [][Called({"copy"}) =>
            LET i == ret'.obj
                j == Len(objs')
            IN  /\ Len(objs') = Len(objs) + 1
                /\ \A n \in DOMAIN objs : objs'[n] = objs[n]
                /\ \A n \in DOMAIN dicts : dicts'[n] = dicts[n]
                /\ \A n \in DOMAIN sets : sets'[n] = sets[n]
                /\ objs'[j].options \notin DOMAIN dicts
                /\ dicts'[objs'[j].options] = OptionsBefore(i)
                /\ ret'.arg = "True" => objs'[j].unused = objs[i].unused
                /\ ret'.arg = "False" =>
                      /\ objs'[j].unused \notin DOMAIN sets
                      /\ sets'[objs'[j].unused] = (DOMAIN OptionsBefore(i)) \ {"verbose"}]_vars
    /\ [](\A i, j \in DOMAIN objs : i # j => objs[i].options # objs[j].options)
    /\ [][(nops' = nops + 1 /\ ret'.op # "copy") =>
            LET i == ret'.obj
            IN  /\ objs' = objs
                /\ \A j \in (DOMAIN objs) \ {i} :
                      /\ dicts'[objs[j].options] = dicts[objs[j].options]
                      /\ objs[j].unused # objs[i].unused =>
                            sets'[objs[j].unused] = sets[objs[j].unused]
                      /\ (objs[j].unused = objs[i].unused
                          /\ ret'.op \in ReadCalls /\ ret'.kind = "return") =>
                            ret'.key \notin sets'[objs[j].unused]]_vars

\* a key of both Configs has been read through a copy that shares the unused
\* set: it is marked used in the original, whose options differ by now
C16_Witness ==
    /\ Len(objs) = 2
    /\ objs[2].unused = objs[1].unused
    /\ ret.op = "__getitem__" /\ ret.obj = 2 /\ ret.key = "a" /\ ret.kind = "return"
    /\ "a" \in DOMAIN Options(1)
    /\ "a" \notin Unused(1)
    /\ Options(1) # Options(2)

\* C17 as stated: run() makes exactly ceil(evol_time / dt) clock increments,
\* i.e. the n with (n - 1) * dt < evol_time <= n * dt, none when evol_time is
\* zero, and leaves the loop with evol_time <= time < evol_time + dt.
C17_CeilIncrements ==
    rpc = "done" =>
        LET E == config.evol_time
            d == config.dt
        IN  /\ E = Zero => iters = 0
            /\ E # Zero =>
                  /\ iters >= 1
                  /\ Less(Times(iters - 1, d), E)
                  /\ Leq(E, Times(iters, d))
            /\ Leq(E, time)
            /\ Less(time, Add(E, d))


=============================================================================
